---- MODULE Spec2Model ----
(***************************************************************************)
(* A model of navdb (src/main.py): the navigation database NavDB, its      *)
(* loader, the ambiguity resolver getClosest, the airway model Route, the  *)
(* token classifier getFPLelemtype and the flight-plan expansion           *)
(* expandFPL.                                                              *)
(*                                                                         *)
(* Strings are sequences of one-character strings, so that slicing,        *)
(* counting and the character tests are computed as the code computes      *)
(* them.  Objects live in a heap (a sequence of records); a reference is   *)
(* an index into the heap and 0 is None, so that object identity (the      *)
(* code's `wpt == last_wpt`, WayPoint defines no __eq__) and copy.copy are *)
(* what they are in the program.  Coordinates are integers in tenths of a  *)
(* minute of arc (degrees * 600).                                          *)
(***************************************************************************)
EXTENDS Integers, Sequences, FiniteSets, TLC

VARIABLES
    heap,        \* the objects: heap[a] is the waypoint at reference a
    _wpts,       \* NavDB._wpts: name -> list of references
    _awys,       \* NavDB._awys: name -> Route
    airac,       \* NavDB.airac: <<>> for None, else <<the AIRACcycle>>
    fpl_arr,     \* expandFPL: the split flight plan
    i,           \* expandFPL: index of the next token of the loop (0-based)
    wpts,        \* expandFPL: the references collected so far
    last_wpt,    \* expandFPL: last resolved waypoint, 0 for None
    apts_found,  \* expandFPL: airports/runways resolved so far
    pc,          \* position of the call in progress
    outcome,     \* how the call ended: a return value or an exception
    call,        \* a direct call of one method: its arguments
    files,       \* the five reference files, each a sequence of lines
    ld_wpts      \* _load: the local dictionary wpts

vars == <<heap, _wpts, _awys, airac, fpl_arr, i, wpts, last_wpt, apts_found,
          pc, outcome, call, files, ld_wpts>>

\* None as a reference
None == 0

\* None and an object where the code holds one or the other in an attribute
\* that is no waypoint reference (self.airac, cawy)
Nothing == <<>>

Some(x) == <<x>>

The(o) == o[1]

(***************************************************************************)
(* Characters and Python's string operations.                              *)
(***************************************************************************)
Digits == {"0", "1", "2", "3", "4", "5", "6", "7", "8", "9"}

Upper == {"A", "B", "C", "D", "E", "F", "G", "H", "I", "J", "K", "L", "M",
          "N", "O", "P", "Q", "R", "S", "T", "U", "V", "W", "X", "Y", "Z"}

Lower == {"a", "b", "c", "d", "e", "f", "g", "h", "i", "j", "k", "l", "m",
          "n", "o", "p", "q", "r", "s", "t", "u", "v", "w", "x", "y", "z"}

\* str.isalpha / str.isdigit / str.isalnum: every character, and not empty
isalpha(s) == Len(s) > 0 /\ \A k \in 1..Len(s) : s[k] \in Upper \cup Lower

isdigit(s) == Len(s) > 0 /\ \A k \in 1..Len(s) : s[k] \in Digits

isalnum(s) ==
    Len(s) > 0 /\ \A k \in 1..Len(s) : s[k] \in Upper \cup Lower \cup Digits

\* s[a:b] for 0 <= a, 0 <= b
Slice(s, a, b) ==
    LET hi == IF b > Len(s) THEN Len(s) ELSE b
    IN  IF a >= hi THEN <<>> ELSE SubSeq(s, a + 1, hi)

\* s[a], 0-based
At(s, a) == s[a + 1]

\* s.count(c) for a one-character c
count(s, c) == Cardinality({k \in 1..Len(s) : s[k] = c})

\* s.replace(c, '') for a one-character c
RECURSIVE remove(_, _)
remove(s, c) ==
    IF s = <<>> THEN <<>>
    ELSE IF Head(s) = c THEN remove(Tail(s), c)
    ELSE <<Head(s)>> \o remove(Tail(s), c)

DigitVal(c) ==
    CASE c = "0" -> 0 [] c = "1" -> 1 [] c = "2" -> 2 [] c = "3" -> 3
      [] c = "4" -> 4 [] c = "5" -> 5 [] c = "6" -> 6 [] c = "7" -> 7
      [] c = "8" -> 8 [] c = "9" -> 9

\* float(s) of a string of digits, as an integer
RECURSIVE Num(_)
Num(s) ==
    IF s = <<>> THEN 0
    ELSE 10 * Num(SubSeq(s, 1, Len(s) - 1)) + DigitVal(s[Len(s)])

Abs(x) == IF x < 0 THEN -x ELSE x

Range(s) == {s[k] : k \in 1..Len(s)}

(***************************************************************************)
(* Exceptions.  A ParsingError carries the identifiers it was built with;  *)
(* the other kinds are the interpreter's own exceptions.                   *)
(***************************************************************************)
Raise(kind, args) == [kind |-> kind, args |-> args]

Return(value) == [kind |-> "return", value |-> value]

Raised(r) == r.kind # "return"

NoOutcome == [kind |-> "none"]

(***************************************************************************)
(* WayPoint and its subclasses.                                            *)
(***************************************************************************)
WayPoint(_name, _lat, _lon) ==
    [name |-> _name, lat |-> _lat, lon |-> _lon, type |-> "WPT"]

NavAid(_name, _lat, _lon, _type) ==
    [name |-> _name, lat |-> _lat, lon |-> _lon, type |-> _type]

Airport(_name, _lat, _lon) ==
    [name |-> _name, lat |-> _lat, lon |-> _lon, type |-> "ARP"]

Runway(_name, _lat, _lon) ==
    [name |-> _name, lat |-> _lat, lon |-> _lon, type |-> "RWY"]

\* WayPoint.distTo: the geodesic distance is an external routine
\* (geographiclib); it is modelled by the distance on the coordinate grid,
\* which is 0 exactly for equal coordinates.
distTo(w, w2) == Abs(w.lat - w2.lat) + Abs(w.lon - w2.lon)

(***************************************************************************)
(* UnnamedWaypoint.__init__: decodes a coordinate token by its length.     *)
(* Returns the new waypoint, or raises UnnamedFormatError or               *)
(* UnnamedOutOfBounds.                                                     *)
(***************************************************************************)
DegUnits == 600

MinUnits == 10

MaxLatDeg == 90

MaxLonDeg == 180

NS == {"N", "S"}

EW == {"E", "W"}

\* latsgn / lonsgn: -1 for the given letter, else 1
Sgn(c, neg) == IF c = neg THEN -1 ELSE 1

\* the format test of each layout (the negated condition of each `if not`)
UnnamedFormatOk(_name) ==
    LET fixlen == Len(_name)
    IN  CASE fixlen = 16 ->
                /\ At(_name, 0) \in NS
                /\ At(_name, 8) \in EW
                /\ At(_name, 7) = "/"
                /\ At(_name, 5) = "."
                /\ At(_name, 14) = "."
                /\ isdigit(Slice(_name, 1, 5))
                /\ isdigit(<<At(_name, 6)>>)
                /\ isdigit(Slice(_name, 9, 14))
                /\ isdigit(<<At(_name, 15)>>)
          [] fixlen = 12 ->
                /\ At(_name, 4) \in NS
                /\ At(_name, 11) \in EW
                /\ At(_name, 5) = "/"
                /\ isdigit(Slice(_name, 0, 4))
                /\ isdigit(Slice(_name, 6, 11))
          [] fixlen = 15 ->
                /\ At(_name, 6) \in NS
                /\ At(_name, 14) \in EW
                /\ At(_name, 4) = "."
                /\ At(_name, 12) = "."
                /\ isdigit(Slice(_name, 0, 4))
                /\ isdigit(<<At(_name, 5)>>)
                /\ isdigit(Slice(_name, 7, 12))
                /\ isdigit(<<At(_name, 13)>>)
          [] fixlen = 11 ->
                /\ At(_name, 4) \in NS
                /\ At(_name, 10) \in EW
                /\ isdigit(Slice(_name, 0, 4))
                /\ isdigit(Slice(_name, 5, 10))
          [] fixlen = 5 ->
                /\ At(_name, 0) = "H"
                /\ isdigit(Slice(_name, 1, 5))
          [] fixlen = 7 ->
                /\ At(_name, 2) \in NS
                /\ At(_name, 6) \in EW
                /\ isdigit(Slice(_name, 0, 2))
                /\ isdigit(Slice(_name, 3, 6))
          [] OTHER -> FALSE

\* <<lat, lon>> of a token that passed the format test
UnnamedLatLon(_name) ==
    LET fixlen == Len(_name)
        N(a, b) == Num(Slice(_name, a, b))
    IN  CASE fixlen = 16 ->
                <<Sgn(At(_name, 0), "S")
                    * (N(1, 3) * DegUnits + N(3, 5) * MinUnits + N(6, 7)),
                  Sgn(At(_name, 8), "W")
                    * (N(9, 12) * DegUnits + N(12, 14) * MinUnits + N(15, 16))>>
          [] fixlen = 12 ->
                <<Sgn(At(_name, 4), "S")
                    * (N(0, 2) * DegUnits + N(2, 4) * MinUnits),
                  Sgn(At(_name, 11), "W")
                    * (N(6, 9) * DegUnits + N(9, 11) * MinUnits)>>
          [] fixlen = 15 ->
                <<Sgn(At(_name, 6), "S")
                    * (N(0, 2) * DegUnits + N(2, 4) * MinUnits + N(5, 6)),
                  Sgn(At(_name, 14), "W")
                    * (N(7, 10) * DegUnits + N(10, 12) * MinUnits + N(13, 14))>>
          [] fixlen = 11 ->
                <<Sgn(At(_name, 4), "S")
                    * (N(0, 2) * DegUnits + N(2, 4) * MinUnits),
                  Sgn(At(_name, 10), "W")
                    * (N(5, 8) * DegUnits + N(8, 10) * MinUnits)>>
          [] fixlen = 5 ->
                <<N(1, 3) * DegUnits + DegUnits \div 2,
                  -(N(3, 5) * DegUnits)>>
          [] fixlen = 7 ->
                <<Sgn(At(_name, 2), "S") * (N(0, 2) * DegUnits),
                  Sgn(At(_name, 6), "W") * (N(3, 6) * DegUnits)>>

UnnamedWaypoint(_name) ==
    IF ~UnnamedFormatOk(_name)
    THEN Raise("UnnamedFormatError", <<_name>>)
    ELSE LET ll == UnnamedLatLon(_name)
         IN  IF \/ ll[1] < -(MaxLatDeg * DegUnits)
                \/ ll[1] > MaxLatDeg * DegUnits
                \/ ll[2] < -(MaxLonDeg * DegUnits)
                \/ ll[2] > MaxLonDeg * DegUnits
             THEN Raise("UnnamedOutOfBounds", <<_name>>)
             ELSE Return([name |-> _name, lat |-> ll[1], lon |-> ll[2],
                          type |-> "uWPT"])

(***************************************************************************)
(* Route: the airway model.  A Route is [name, _wpts, _wptnames].          *)
(***************************************************************************)
\* list.index: the first position of x (0-based), -1 for ValueError
index(s, x) ==
    IF \E k \in 1..Len(s) : s[k] = x
    THEN (CHOOSE k \in 1..Len(s) :
              s[k] = x /\ \A j \in 1..(k - 1) : s[j] # x) - 1
    ELSE -1

\* the loop `for i in range(start, stop, step): _wpts.append(self._wpts[i])`
RECURSIVE rangeWpts(_, _, _, _)
rangeWpts(r_wpts, start, stop, step) ==
    IF (step > 0 /\ start >= stop) \/ (step < 0 /\ start <= stop)
    THEN <<>>
    ELSE <<At(r_wpts, start)>> \o rangeWpts(r_wpts, start + step, stop, step)

\* getStep without the reversal of `if _entry_index > _exit_index`
getStepForward(_entry_index, _exit_index) == 1

\* the direction of travel along the airway
getStep(_entry_index, _exit_index) ==
    IF _entry_index > _exit_index THEN -1 ELSE 1

getWaypoints(route, _entry, _exit) ==
    LET _entry_index == index(route._wptnames, _entry)
        _exit_index == index(route._wptnames, _exit)
    IN  IF _entry_index = -1
        THEN Raise("NotOnAirwayError", <<_entry, route.name>>)
        ELSE IF _exit_index = -1
        THEN Raise("NotOnAirwayError", <<_exit, route.name>>)
        ELSE Return(rangeWpts(route._wpts, _entry_index, _exit_index,
                              getStep(_entry_index, _exit_index)))

(***************************************************************************)
(* NavDB.getClosest: the ambiguity resolver.  The result also counts the   *)
(* calls of distTo it made.                                                *)
(***************************************************************************)
\* min(wpt_dst)
Min(s) == CHOOSE m \in Range(s) : \A x \in Range(s) : m <= x

\* closestOf taking the last of the nearest candidates, not the first
closestOfLast(wpt_pot, wpt_dst) ==
    wpt_pot[CHOOSE k \in 1..Len(wpt_dst) :
                /\ wpt_dst[k] = Min(wpt_dst)
                /\ \A j \in (k + 1)..Len(wpt_dst) : wpt_dst[j] # Min(wpt_dst)]

\* wpt_pot[wpt_dst.index(min(wpt_dst))]
closestOf(wpt_pot, wpt_dst) == At(wpt_pot, index(wpt_dst, Min(wpt_dst)))

getClosest(_name, _close_wpt) ==
    IF _name \notin DOMAIN _wpts
    THEN [kind |-> "ElementNotFoundError", args |-> <<_name>>, dists |-> 0]
    ELSE LET wpt_pot == _wpts[_name]
         IN  IF Len(wpt_pot) = 1
             THEN [kind |-> "return", value |-> wpt_pot[1], dists |-> 0]
             ELSE IF _close_wpt = None
             THEN [kind |-> "ElementAmbiguousError", args |-> <<_name>>,
                   dists |-> 0]
             ELSE LET wpt_dst == [k \in 1..Len(wpt_pot) |->
                                    distTo(heap[wpt_pot[k]], heap[_close_wpt])]
                  IN  [kind |-> "return",
                       value |-> closestOf(wpt_pot, wpt_dst),
                       dists |-> Len(wpt_dst)]

(***************************************************************************)
(* NavDB.getFPLelemtype: the token classifier.  "None" is the value of a   *)
(* call that falls off the end of the function.                            *)
(***************************************************************************)
DCT == <<"D", "C", "T">>

NAT == <<"N", "A", "T">>

no_aph(_elem) == Cardinality({k \in 1..Len(_elem) : isalpha(<<_elem[k]>>)})

no_dig(_elem) == Cardinality({k \in 1..Len(_elem) : isdigit(<<_elem[k]>>)})

no_dir(_elem) ==
    count(_elem, "N") + count(_elem, "S") + count(_elem, "W")
        + count(_elem, "E")

\* the branch `elif no_tot == 4 and "NAT" in _elem[0:3]` and its inner `if`
natBranch(_elem) == IF isalpha(<<At(_elem, 3)>>) THEN "nat" ELSE "None"

getFPLelemtype(_elem) ==
    LET no_tot == Len(_elem)
    IN  IF _elem = DCT THEN "dct"
        ELSE IF no_dir(_elem) = 2 /\ no_tot \in {7, 11, 12, 15, 16}
                /\ no_dig(_elem) >= 5 THEN "ufx"
        ELSE IF no_tot = 5 /\ At(_elem, 0) = "H" /\ no_dig(_elem) = 4
        THEN "ufx"
        ELSE IF no_tot = 4 /\ Slice(_elem, 0, 3) = NAT THEN natBranch(_elem)
        ELSE IF no_tot = 4 /\ no_dig(_elem) = 0 THEN "apt"
        ELSE IF no_tot \in {7, 8} /\ At(_elem, 4) = "R"
                /\ isdigit(Slice(_elem, 5, 7)) THEN "rwy"
        ELSE IF no_aph(_elem) = 1 /\ no_dig(_elem) >= 4 THEN "fix"
        ELSE IF isalpha(_elem) /\ no_tot < 6 THEN "fix"
        ELSE IF _elem \in DOMAIN _awys THEN "awy"
        ELSE IF _elem \in DOMAIN _wpts THEN "fix"
        ELSE "prc"

(***************************************************************************)
(* NavDB._load.  A line of a reference file is given by its fields (the    *)
(* fixed columns the code slices are not modelled):                        *)
(*   [kind |-> "header", cycle |-> n]    ";AIRAC ..." with cycle number n  *)
(*   [kind |-> "comment"]                another line starting with ";"    *)
(*   [kind |-> "data", ...]              a data line                       *)
(* The dictionaries are functions on the set of their keys.                *)
(***************************************************************************)
EmptyDict == [k \in {} |-> <<>>]

\* d.setdefault(k, []).append(v)
setdefaultAppend(d, k, v) ==
    IF k \in DOMAIN d
    THEN [d EXCEPT ![k] = Append(@, v)]
    ELSE [x \in DOMAIN d \cup {k} |-> IF x = k THEN <<v>> ELSE d[x]]

\* d[k] = v
setItem(d, k, v) ==
    [x \in DOMAIN d \cup {k} |-> IF x = k THEN v ELSE d[x]]

\* AIRACcycle.__init__: the cycle number of a header line
AIRACcycle(l) == [cycle |-> l.cycle]

\* AIRACcycle.__eq__
AIRACeq(a, b) == a.cycle = b.cycle

\* the names the five files are opened by
OpenedFile ==
    [load_navaids |-> "wpNavAID.txt", load_fixes |-> "wpNavFIX.txt",
     load_runways |-> "wpNavAPT.txt", load_airports |-> "airports.dat",
     load_airways |-> "wpNavRTE.txt"]

\* the names the five loops give to WrongAIRACcycleError
RaisedFile ==
    [load_navaids |-> "wpNavAID.txt", load_fixes |-> "wpNavFIX.txt",
     load_runways |-> "wpNavFIX.txt", load_airports |-> "airports.dat",
     load_airways |-> "wpNavRTE.txt"]

\* the branch `if "AIRAC" in l[1:6]` of each loop; st.airac is self.airac
checkHeader(st, l, block) ==
    IF st.airac = Nothing
    THEN [st EXCEPT !.airac = Some(AIRACcycle(l))]
    ELSE IF ~AIRACeq(AIRACcycle(l), The(st.airac))
    THEN [st EXCEPT !.err = Raise("WrongAIRACcycleError",
                                  <<RaisedFile[block]>>)]
    ELSE st

\* the entity a data line of a point file makes
entityOf(l, block) ==
    CASE block = "load_navaids" -> NavAid(l.name, l.lat, l.lon, l.type)
      [] block = "load_fixes" -> WayPoint(l.name, l.lat, l.lon)
      [] block = "load_runways" ->
            Runway(l.apt \o <<"R">> \o l.rwy, l.lat, l.lon)
      [] block = "load_airports" -> Airport(l.name, l.lat, l.lon)

\* the loop over the lines of one of the four point files;
\* st is [heap, wpts, airac, err]
RECURSIVE loadPoints(_, _, _)
loadPoints(st, lines, block) ==
    IF lines = <<>> \/ st.err.kind # "none" THEN st
    ELSE LET l == Head(lines)
             st2 == IF l.kind = "header" THEN checkHeader(st, l, block)
                    ELSE IF l.kind = "comment" THEN st
                    ELSE LET e == entityOf(l, block)
                         IN  [st EXCEPT
                                !.heap = Append(@, e),
                                !.wpts = setdefaultAppend(@, e.name,
                                                          Len(st.heap) + 1)]
         IN  loadPoints(st2, Tail(lines), block)

Route(_name) == [name |-> _name, _wpts |-> <<>>, _wptnames |-> <<>>]

\* Route.addWaypoint
addWaypoint(route, ref, _wptname) ==
    [route EXCEPT !._wpts = Append(@, ref),
                  !._wptnames = Append(@, _wptname)]

\* one data line of the airways file
airwayLine(st, l) ==
    LET ref == Len(st.heap) + 1
        cawy == IF st.cawy = Nothing THEN Route(l.name) ELSE The(st.cawy)
        h2 == Append(st.heap, WayPoint(l.wptname, l.lat, l.lon))
    IN  IF cawy.name = l.name
        THEN [st EXCEPT !.heap = h2,
                        !.cawy = Some(addWaypoint(cawy, ref, l.wptname))]
        ELSE [st EXCEPT !.heap = h2,
                        !.awys = setItem(@, cawy.name, cawy),
                        !.cawy = Some(addWaypoint(Route(l.name), ref,
                                                     l.wptname))]

\* the loop over the lines of the airways file and its `else` clause;
\* st is [heap, awys, cawy, airac, err]
RECURSIVE loadAirways(_, _)
loadAirways(st, lines) ==
    IF st.err.kind # "none" THEN st
    ELSE IF lines = <<>>
    THEN IF st.cawy = Nothing
         THEN [st EXCEPT !.err = Raise("AttributeError", <<"name">>)]
         ELSE [st EXCEPT !.awys = setItem(@, The(st.cawy).name,
                                          The(st.cawy))]
    ELSE LET l == Head(lines)
             st2 == IF l.kind = "header"
                    THEN checkHeader(st, l, "load_airways")
                    ELSE IF l.kind = "comment" THEN st
                    ELSE airwayLine(st, l)
         IN  loadAirways(st2, Tail(lines))

PointBlocks ==
    <<"load_navaids", "load_fixes", "load_runways", "load_airports">>

\* _load on a database [heap, _wpts, _awys, airac], as one function:
\* the database after the load, and err the exception that ended it
RECURSIVE loadPointFiles(_, _, _)
loadPointFiles(st, fs, k) ==
    IF k > Len(PointBlocks) \/ st.err.kind # "none" THEN st
    ELSE loadPointFiles(loadPoints(st, fs[PointBlocks[k]], PointBlocks[k]),
                        fs, k + 1)

_load(self, fs) ==
    LET p == loadPointFiles([heap |-> self.heap, wpts |-> EmptyDict,
                             airac |-> self.airac, err |-> NoOutcome], fs, 1)
    IN  IF p.err.kind # "none"
        THEN [heap |-> p.heap, _wpts |-> self._wpts, _awys |-> self._awys,
              airac |-> p.airac, err |-> p.err]
        ELSE LET a == loadAirways([heap |-> p.heap, awys |-> EmptyDict,
                                   cawy |-> Nothing, airac |-> p.airac,
                                   err |-> NoOutcome], fs.load_airways)
             IN  [heap |-> a.heap, _wpts |-> p.wpts,
                  _awys |-> IF a.err.kind # "none" THEN self._awys
                            ELSE a.awys,
                  airac |-> a.airac, err |-> a.err]

\* NavDB.__init__ before its call of _load
NewNavDB ==
    [heap |-> <<>>, _wpts |-> EmptyDict, _awys |-> EmptyDict,
     airac |-> Nothing]

(***************************************************************************)
(* NavDB.expandFPL.  One action per part of the call: the validation loop, *)
(* one iteration of the resolution loop (one action per branch of its      *)
(* if/elif chain), and the copying return.                                 *)
(***************************************************************************)
fpl_sz == Len(fpl_arr)

\* the token of the current iteration, fpl_arr[i]
elem == At(fpl_arr, i)

\* illegal without the count of '/'
illegalNoSlashCount(e) == ~isalnum(remove(remove(e, "/"), "."))

\* the condition under which the validation loop raises for a token
illegal(e) ==
    ~isalnum(remove(remove(e, "/"), ".")) \/ count(e, "/") > 1

\* the validation loop: the first token it raises for, 0 if none
firstIllegal(arr) ==
    IF \E k \in 1..Len(arr) : illegal(arr[k])
    THEN CHOOSE k \in 1..Len(arr) :
            illegal(arr[k]) /\ \A j \in 1..(k - 1) : ~illegal(arr[j])
    ELSE 0

Validate ==
    /\ pc = "validate"
    /\ LET k == firstIllegal(fpl_arr)
       IN  IF k # 0
           THEN /\ pc' = "raised"
                /\ outcome' = Raise("IllegalCharacterError", <<fpl_arr[k]>>)
           ELSE /\ pc' = "loop"
                /\ outcome' = outcome
    /\ UNCHANGED <<heap, _wpts, _awys, airac, fpl_arr, i, wpts, last_wpt,
                   apts_found, call, files, ld_wpts>>

\* `(i-1 >= 0) and (i+1 < fpl_sz)`
hasNeighbours == (i - 1 >= 0) /\ (i + 1 < fpl_sz)

InLoop == pc = "loop" /\ i < fpl_sz

\* the state an iteration leaves: res is
\* [err, heap, wpts, last_wpt, apts_found]
Commit(res) ==
    /\ IF res.err.kind # "none"
       THEN /\ pc' = "raised"
            /\ outcome' = res.err
            /\ UNCHANGED <<i, wpts, last_wpt, apts_found, heap>>
       ELSE /\ pc' = pc
            /\ outcome' = outcome
            /\ i' = i + 1
            /\ wpts' = res.wpts
            /\ last_wpt' = res.last_wpt
            /\ apts_found' = res.apts_found
            /\ heap' = res.heap
    /\ UNCHANGED <<_wpts, _awys, airac, fpl_arr, call, files, ld_wpts>>

\* an iteration that changes nothing
Same ==
    [err |-> NoOutcome, heap |-> heap, wpts |-> wpts,
     last_wpt |-> last_wpt, apts_found |-> apts_found]

Fail(e) == [Same EXCEPT !.err = e]

\* `wpts.append(w); last_wpt = w`
Resolved(w) == [Same EXCEPT !.wpts = Append(wpts, w), !.last_wpt = w]

\* `if wpt: wpts.append(wpt); last_wpt = wpt`
ResolvedIf(w) == IF w # None THEN Resolved(w) ELSE Same

\* `if wpt == last_wpt: wpt = None` (identity: WayPoint has no __eq__)
suppressLast(w) == IF w = last_wpt THEN None ELSE w

\* awyAppended keeping the entry point
awyAppendedWhole(awy_wpts) == awy_wpts

\* `for w in awy_wpts[1:]: wpts.append(w)`: what the loop appends
awyAppended(awy_wpts) == Slice(awy_wpts, 1, Len(awy_wpts))

\* the airway branch
awyResult ==
    LET awy_start == At(fpl_arr, i - 1)
        awy_end == At(fpl_arr, i + 1)
        awy_name == At(fpl_arr, i)
    IN  IF awy_name \notin DOMAIN _awys
        THEN Fail(Raise("ElementNotFoundError", <<awy_name>>))
        ELSE LET r == getWaypoints(_awys[awy_name], awy_start, awy_end)
             IN  IF Raised(r) THEN Fail(r)
                 ELSE LET awy_wpts == r.value
                      IN  IF awy_wpts = <<>>
                          THEN Fail(Raise("IndexError", <<awy_name>>))
                          ELSE [Same EXCEPT
                                  !.wpts = wpts \o awyAppended(awy_wpts),
                                  !.last_wpt = awy_wpts[Len(awy_wpts)]]

StepAwy ==
    /\ InLoop
    /\ getFPLelemtype(elem) = "awy" /\ hasNeighbours
    /\ Commit(awyResult)

\* the neighbour types the procedure branch takes for a runway or airport
aptNeighbourTypes == {"rwy", "arp"}

\* `self.getClosest(name, self._wpts[other[0:4]][0])`
closestToAirport(name, other) ==
    LET key == Slice(other, 0, 4)
    IN  IF key \notin DOMAIN _wpts
        THEN [kind |-> "KeyError", args |-> <<key>>]
        ELSE getClosest(name, _wpts[key][1])

\* the procedure branch
prcResult ==
    LET prev == At(fpl_arr, i - 1)
        next == At(fpl_arr, i + 1)
        pelem == getFPLelemtype(prev)
        nelem == getFPLelemtype(next)
        sid == nelem = "fix" /\ pelem \in aptNeighbourTypes
        star == pelem = "fix" /\ nelem \in aptNeighbourTypes
        r1 == closestToAirport(next, prev)
        r2 == closestToAirport(prev, next)
    IN  IF sid /\ Raised(r1) THEN Fail([kind |-> r1.kind, args |-> r1.args])
        ELSE IF star /\ Raised(r2)
        THEN Fail([kind |-> r2.kind, args |-> r2.args])
        ELSE IF star THEN ResolvedIf(suppressLast(r2.value))
        ELSE IF sid THEN ResolvedIf(r1.value)
        ELSE Same

StepPrc ==
    /\ InLoop
    /\ getFPLelemtype(elem) = "prc" /\ hasNeighbours
    /\ Commit(prcResult)

\* `apts_found < 2`
MaxApts == 2

\* aptsBelowLimit off by one
aptsUpToLimit(n) == n <= MaxApts

aptsBelowLimit(n) == n < MaxApts

\* the airport/runway branch
aptResult ==
    IF aptsBelowLimit(apts_found)
    THEN IF elem \notin DOMAIN _wpts
         THEN Fail(Raise("ElementNotFoundError", <<elem>>))
         ELSE [Resolved(_wpts[elem][1]) EXCEPT
                 !.apts_found = apts_found + 1]
    ELSE Same

StepApt ==
    /\ InLoop
    /\ getFPLelemtype(elem) \in {"apt", "rwy"}
    /\ Commit(aptResult)

\* `wpt.distTo(last_wpt) < 0.1`: closer than any two distinct grid points
Proximity == 1

\* the unnamed-fix branch
ufxResult ==
    LET r == UnnamedWaypoint(elem)
        ref == Len(heap) + 1
    IN  IF Raised(r) THEN Fail(r)
        ELSE IF last_wpt = None
        THEN Fail(Raise("AttributeError", <<elem>>))
        ELSE IF distTo(r.value, heap[last_wpt]) < Proximity THEN Same
        ELSE [Resolved(ref) EXCEPT !.heap = Append(heap, r.value)]

StepUfx ==
    /\ InLoop
    /\ getFPLelemtype(elem) = "ufx"
    /\ Commit(ufxResult)

\* the fix branch
fixResult ==
    LET r == getClosest(elem, last_wpt)
    IN  IF Raised(r) THEN Fail([kind |-> r.kind, args |-> r.args])
        ELSE ResolvedIf(suppressLast(r.value))

StepFix ==
    /\ InLoop
    /\ getFPLelemtype(elem) = "fix"
    /\ Commit(fixResult)

\* no branch of the chain is taken
StepNone ==
    /\ InLoop
    /\ LET t == getFPLelemtype(elem)
       IN  \/ t \in {"dct", "nat", "None"}
           \/ t \in {"awy", "prc"} /\ ~hasNeighbours
    /\ Commit(Same)

\* copy.copy(w): a new object with the same attributes
copyOf(h, w) == h[w]

\* the loop `for w in wpts: wpts_ret.append(copy.copy(w))`:
\* [heap, refs] after copying ws
RECURSIVE copyAll(_, _)
copyAll(st, ws) ==
    IF ws = <<>> THEN st
    ELSE copyAll([heap |-> Append(st.heap, copyOf(st.heap, Head(ws))),
                  refs |-> Append(st.refs, Len(st.heap) + 1)], Tail(ws))

\* returnedWpts without the copies
returnedWptsNoCopy(h, ws) == [heap |-> h, refs |-> ws]

\* wpts_ret of `return wpts_ret`
returnedWpts(h, ws) == copyAll([heap |-> h, refs |-> <<>>], ws)

ReturnCopies ==
    /\ pc = "loop" /\ i = fpl_sz
    /\ LET c == returnedWpts(heap, wpts)
       IN  /\ heap' = c.heap
           /\ outcome' = Return(c.refs)
    /\ pc' = "returned"
    /\ UNCHANGED <<_wpts, _awys, airac, fpl_arr, i, wpts, last_wpt,
                   apts_found, call, files, ld_wpts>>

\* the caller changes an element of the sequence it was returned (the
\* modification the comment above the copying loop speaks of)
Renamed == <<"X">>

CallerModifies ==
    /\ pc = "returned"
    /\ \E k \in 1..Len(outcome.value) :
          heap' = [heap EXCEPT ![outcome.value[k]].name = Renamed]
    /\ pc' = "modified"
    /\ UNCHANGED <<_wpts, _awys, airac, fpl_arr, i, wpts, last_wpt,
                   apts_found, outcome, call, files, ld_wpts>>

(***************************************************************************)
(* A loaded database: the result of _load on five small reference files.   *)
(* MID is a name two navaids share; EGLLR09 is a runway of EGLL; the       *)
(* airway L9 runs BOGNA, HAZEL, DVR; D123 is a fix only rule 10 of the     *)
(* classifier knows.                                                       *)
(***************************************************************************)
EGLL == <<"E", "G", "L", "L">>

EGKK == <<"E", "G", "K", "K">>

MID == <<"M", "I", "D">>

DVR == <<"D", "V", "R">>

BOGNA == <<"B", "O", "G", "N", "A">>

HAZEL == <<"H", "A", "Z", "E", "L">>

L9 == <<"L", "9">>

D123 == <<"D", "1", "2", "3">>

Header(n) == [kind |-> "header", cycle |-> n]

Comment == [kind |-> "comment"]

PointLine(n, la, lo) == [kind |-> "data", name |-> n, lat |-> la, lon |-> lo]

NavAidLine(n, t, la, lo) ==
    [kind |-> "data", name |-> n, type |-> t, lat |-> la, lon |-> lo]

RunwayLine(a, r, la, lo) ==
    [kind |-> "data", apt |-> a, rwy |-> r, lat |-> la, lon |-> lo]

AirwayLine(n, w, la, lo) ==
    [kind |-> "data", name |-> n, wptname |-> w, lat |-> la, lon |-> lo]

ExampleFiles ==
    [load_navaids |->
        <<Header(2301),
          NavAidLine(MID, "VOR", 30900, -200),
          NavAidLine(MID, "NDB", 30600, -100),
          NavAidLine(DVR, "VOR", 30650, 100)>>,
     load_fixes |->
        <<Header(2301), Comment,
          PointLine(BOGNA, 30700, -150),
          PointLine(HAZEL, 30800, -160),
          PointLine(D123, 30750, -155)>>,
     load_runways |->
        <<Header(2301), RunwayLine(EGLL, <<"0", "9">>, 30900, -310)>>,
     load_airports |->
        <<PointLine(EGLL, 30900, -300), PointLine(EGKK, 30600, 0)>>,
     load_airways |->
        <<Header(2301),
          AirwayLine(L9, BOGNA, 30700, -150),
          AirwayLine(L9, HAZEL, 30800, -160),
          AirwayLine(L9, DVR, 30650, 100)>>]

ExampleDB == _load(NewNavDB, ExampleFiles)

\* the references the database holds, in the point map and in the airways
dbRefs ==
    UNION {Range(_wpts[n]) : n \in DOMAIN _wpts}
        \cup UNION {Range(_awys[a]._wpts) : a \in DOMAIN _awys}

(***************************************************************************)
(* The flight plans expandFPL is called with: every sequence of at most    *)
(* MaxPlanLen of these tokens.                                             *)
(***************************************************************************)
MaxPlanLen == 4

EGLLR09 == <<"E", "G", "L", "L", "R", "0", "9">>

ZZZZR09 == <<"Z", "Z", "Z", "Z", "R", "0", "9">>

SID1A == <<"S", "I", "D", "1", "A">>

\* 50N001W
Unnamed50N1W == <<"5", "0", "N", "0", "0", "1", "W">>

\* 95N200E: out of bounds
Unnamed95N200E == <<"9", "5", "N", "2", "0", "0", "E">>

\* A-B: an illegal character
IllegalAB == <<"A", "-", "B">>

PlanTokens ==
    {DCT, EGLL, EGKK, EGLLR09, ZZZZR09, BOGNA, DVR, MID, L9, SID1A,
     Unnamed50N1W, Unnamed95N200E, IllegalAB}

SeqsUpTo(S, n) == UNION {[1..k -> S] : k \in 0..n}

Plans == SeqsUpTo(PlanTokens, MaxPlanLen)

\* the variables of the parts of the program a specification leaves alone
IdleLoader == files = <<>> /\ ld_wpts = EmptyDict

IdleCall == call = <<>>

IdleExpand ==
    /\ fpl_arr = <<>>
    /\ i = 0
    /\ wpts = <<>>
    /\ last_wpt = None
    /\ apts_found = 0

HoldsDB(d) ==
    /\ heap = d.heap
    /\ _wpts = d._wpts
    /\ _awys = d._awys
    /\ airac = d.airac

\* expandFPL(_fpl) is called on the loaded database
Init ==
    /\ HoldsDB(ExampleDB)
    /\ fpl_arr \in Plans
    /\ i = 0
    /\ wpts = <<>>
    /\ last_wpt = None
    /\ apts_found = 0
    /\ pc = "validate"
    /\ outcome = NoOutcome
    /\ IdleCall
    /\ IdleLoader

Next ==
    \/ Validate
    \/ StepAwy
    \/ StepPrc
    \/ StepApt
    \/ StepUfx
    \/ StepFix
    \/ StepNone
    \/ ReturnCopies
    \/ CallerModifies

Spec == Init /\ [][Next]_vars

(***************************************************************************)
(* Properties of expandFPL, checked under Spec.                            *)
(***************************************************************************)
\* the first database candidate of the first four characters of a token
airportOf(tok) == _wpts[Slice(tok, 0, 4)][1]

\* One iteration on a Procedure token with both neighbours, as the
\* specification describes it, where `apts` are the classifier's roles that
\* count as Runway or Airport: in the departure case the successor is
\* resolved against the predecessor's airport, appended, and becomes
\* last-resolved; in the arrival case the predecessor is resolved against
\* the successor's airport and appended unless it is last-resolved.
ProcedureStepAsSpecified(apts) ==
    (InLoop /\ getFPLelemtype(elem) = "prc" /\ hasNeighbours) =>
        LET prev == At(fpl_arr, i - 1)
            next == At(fpl_arr, i + 1)
            pelem == getFPLelemtype(prev)
            nelem == getFPLelemtype(next)
        IN  /\ ( /\ nelem = "fix" /\ pelem \in apts
                 /\ Slice(prev, 0, 4) \in DOMAIN _wpts
                 /\ ~Raised(getClosest(next, airportOf(prev))) )
               => LET w == getClosest(next, airportOf(prev)).value
                  IN  wpts' = Append(wpts, w) /\ last_wpt' = w
            /\ ( /\ pelem = "fix" /\ nelem \in apts
                 /\ Slice(next, 0, 4) \in DOMAIN _wpts
                 /\ ~Raised(getClosest(prev, airportOf(next))) )
               => LET w == getClosest(prev, airportOf(next)).value
                  IN  IF w = last_wpt
                      THEN wpts' = wpts /\ last_wpt' = last_wpt
                      ELSE wpts' = Append(wpts, w) /\ last_wpt' = w

\* C1: a Procedure token between a Runway or Airport and a Fix resolves the
\* Fix against the airport of the other neighbour, for Airport neighbours
\* exactly as for Runway neighbours.
C1_ProcedureRunwayOrAirport ==
    [][ProcedureStepAsSpecified({"rwy", "apt"})]_vars

\* What the code does of C1: the same for Runway neighbours alone.
ProcedureRunwayOnly == [][ProcedureStepAsSpecified({"rwy"})]_vars

\* the errors the specification calls resolution errors
ResolutionErrors ==
    {"ElementNotFoundError", "ElementAmbiguousError", "NotOnAirwayError",
     "IllegalCharacterError", "UnnamedFormatError", "UnnamedOutOfBounds"}

\* C3: a call of expand ends by returning a sequence or by raising a
\* resolution error that carries the offending identifier, and in no other
\* way.
C3_OnlyResolutionErrors ==
    pc = "raised" =>
        outcome.kind \in ResolutionErrors /\ Len(outcome.args) >= 1

\* the Airport and Runway tokens among the first n tokens of the plan
aptTokensBefore(n) ==
    Cardinality({k \in 1..n : getFPLelemtype(fpl_arr[k]) \in {"apt", "rwy"}})

\* One iteration on an Airport or Runway token: looked up and appended when
\* fewer than two such tokens precede it, and without any effect otherwise.
AirportStepAsSpecified ==
    (InLoop /\ getFPLelemtype(elem) \in {"apt", "rwy"}) =>
        IF aptTokensBefore(i) < 2
        THEN IF elem \in DOMAIN _wpts
             THEN /\ wpts' = Append(wpts, _wpts[elem][1])
                  /\ last_wpt' = _wpts[elem][1]
                  /\ apts_found' = apts_found + 1
                  /\ pc' = "loop"
             ELSE /\ pc' = "raised"
                  /\ outcome' = Raise("ElementNotFoundError", <<elem>>)
        ELSE /\ wpts' = wpts
             /\ last_wpt' = last_wpt
             /\ apts_found' = apts_found
             /\ pc' = "loop"
             /\ outcome' = outcome

\* C7: the count of resolved airport/runway tokens never exceeds 2; the
\* first two Airport or Runway tokens are looked up and appended (NotFound
\* if absent), every later one changes nothing and raises nothing.
C7_FirstTwoAirports ==
    /\ [](apts_found <= 2)
    /\ [](pc = "loop" =>
            apts_found = (IF aptTokensBefore(i) < 2 THEN aptTokensBefore(i)
                          ELSE 2))
    /\ [][AirportStepAsSpecified]_vars

\* a third Airport or Runway token, absent from the database, was passed
C7_Witness ==
    /\ pc = "loop"
    /\ apts_found = 2
    /\ \E k \in 1..i :
          /\ getFPLelemtype(fpl_arr[k]) \in {"apt", "rwy"}
          /\ aptTokensBefore(k - 1) >= 2
          /\ fpl_arr[k] \notin DOMAIN _wpts

\* what the database holds: the maps, the cycle, and its waypoints
dbView == <<_wpts, _awys, airac, [a \in dbRefs |-> heap[a]]>>

\* every returned element is a new object equal to the collected one
ReturnsCopies ==
    pc \in {"returned", "modified"} =>
        /\ Len(outcome.value) = Len(wpts)
        /\ \A k \in 1..Len(wpts) :
              /\ outcome.value[k] \notin dbRefs
              /\ outcome.value[k] # wpts[k]
              /\ pc = "returned" => heap[outcome.value[k]] = heap[wpts[k]]

\* C10: expand leaves the database unchanged, whether it returns or raises,
\* and what it returns are copies: a caller changing a returned element
\* changes no waypoint of the database.
C10_DatabaseUntouched == []ReturnsCopies /\ [][dbView' = dbView]_vars

\* the caller has changed a returned copy of a database waypoint
C10_Witness ==
    /\ pc = "modified"
    /\ \E k \in 1..Len(wpts) :
          /\ wpts[k] \in dbRefs
          /\ heap[outcome.value[k]].name = Renamed
          /\ heap[wpts[k]].name # Renamed

(***************************************************************************)
(* Direct calls of Route.getWaypoints and of expandFPL on 'X L9 Y', on     *)
(* databases whose airway L9 is any sequence of at most MaxRouteLen of     *)
(* the names BOGNA, HAZEL, DVR, MID (a name may repeat).                   *)
(***************************************************************************)
MaxRouteLen == 4

AirwayNames == {BOGNA, HAZEL, DVR, MID}

RouteNames == SeqsUpTo(AirwayNames, MaxRouteLen) \ {<<>>}

\* the example files with the airway L9 running along the names s
AirwayFiles(s) ==
    [ExampleFiles EXCEPT
        !.load_airways =
            <<Header(2301)>>
                \o [k \in 1..Len(s) |-> AirwayLine(L9, s[k], 30000 + k, k)]]

IdleAll == IdleExpand /\ IdleLoader

InitRoute ==
    /\ \E s \in RouteNames : HoldsDB(_load(NewNavDB, AirwayFiles(s)))
    /\ call \in [_entry : AirwayNames \cup {EGLL},
                 _exit : AirwayNames \cup {EGLL}]
    /\ pc = "call"
    /\ outcome = NoOutcome
    /\ IdleAll

CallGetWaypoints ==
    /\ pc = "call"
    /\ outcome' = getWaypoints(_awys[L9], call._entry, call._exit)
    /\ pc' = "called"
    /\ UNCHANGED <<heap, _wpts, _awys, airac, fpl_arr, i, wpts, last_wpt,
                   apts_found, call, files, ld_wpts>>

SpecRoute == InitRoute /\ [][CallGetWaypoints]_vars

\* the first position of name n in s, 0-based
firstAt(s, n) ==
    CHOOSE k \in 0..(Len(s) - 1) :
        s[k + 1] = n /\ \A j \in 0..(k - 1) : s[j + 1] # n

\* C5: extractSegment raises NotOnAirway naming the absent fix and the
\* airway; otherwise it returns the waypoints at the indices e, e+1, ...,
\* x-1 when e <= x and e, e-1, ..., x+1 when e > x, with e and x the first
\* indices of entry and exit.
C5_SegmentHalfOpen ==
    pc = "called" =>
        LET s == _awys[L9]._wptnames
            w == _awys[L9]._wpts
        IN  IF call._entry \notin Range(s)
            THEN outcome = Raise("NotOnAirwayError", <<call._entry, L9>>)
            ELSE IF call._exit \notin Range(s)
            THEN outcome = Raise("NotOnAirwayError", <<call._exit, L9>>)
            ELSE LET e == firstAt(s, call._entry)
                     x == firstAt(s, call._exit)
                 IN  /\ outcome.kind = "return"
                     /\ outcome.value =
                          IF e <= x
                          THEN [k \in 1..(x - e) |-> At(w, e + (k - 1))]
                          ELSE [k \in 1..(e - x) |-> At(w, e - (k - 1))]

\* [A,B,C,D] from D to A gives [D,C,B]
C5_Witness ==
    /\ pc = "called"
    /\ _awys[L9]._wptnames = <<BOGNA, HAZEL, DVR, MID>>
    /\ call = [_entry |-> MID, _exit |-> BOGNA]
    /\ outcome.kind = "return"
    /\ [k \in 1..Len(outcome.value) |-> heap[outcome.value[k]].name]
          = <<MID, DVR, HAZEL>>

InitAirway ==
    /\ \E s \in RouteNames : HoldsDB(_load(NewNavDB, AirwayFiles(s)))
    /\ \E X \in AirwayNames \cup {EGLL}, Y \in AirwayNames \cup {EGLL} :
          fpl_arr = <<X, L9, Y>>
    /\ i = 0
    /\ wpts = <<>>
    /\ last_wpt = None
    /\ apts_found = 0
    /\ pc = "validate"
    /\ outcome = NoOutcome
    /\ IdleCall
    /\ IdleLoader

\* the actions of Next a plan of these tokens can enable
NextAirway ==
    \/ Validate
    \/ StepAwy
    \/ StepApt
    \/ StepFix
    \/ ReturnCopies

SpecAirway == InitAirway /\ [][NextAirway]_vars

names(refs) == [k \in 1..Len(refs) |-> heap[refs[k]].name]

\* the plan is 'X AWY Y' with AWY an Airway, X and Y Fix tokens of one
\* candidate each, at distinct (first) positions of the airway
AirwayPlan ==
    /\ Len(fpl_arr) = 3
    /\ getFPLelemtype(fpl_arr[2]) = "awy"
    /\ \A k \in {1, 3} :
          /\ getFPLelemtype(fpl_arr[k]) = "fix"
          /\ fpl_arr[k] \in DOMAIN _wpts
          /\ Len(_wpts[fpl_arr[k]]) = 1
          /\ fpl_arr[k] \in Range(_awys[fpl_arr[2]]._wptnames)
    /\ fpl_arr[1] # fpl_arr[3]

\* C9: expand of 'X AWY Y' outputs the names of the airway's waypoints from
\* X to Y inclusive, each once, in airway order or in reverse: the airway
\* step appends the segment but its first element and sets last-resolved
\* to the segment's last, and Y comes from the Fix token that follows.
C9_AirwayInclusive ==
    AirwayPlan =>
        LET awy == _awys[fpl_arr[2]]
            e == firstAt(awy._wptnames, fpl_arr[1])
            x == firstAt(awy._wptnames, fpl_arr[3])
            d == IF e < x THEN 1 ELSE -1
            n == (IF e < x THEN x - e ELSE e - x) + 1
            \* the waypoints of the airway strictly between X and Y
            inner == [k \in 1..(n - 2) |-> At(awy._wpts, e + d * k)]
        IN  /\ pc # "raised"
            /\ (pc = "loop" /\ i = 1) => wpts = <<_wpts[fpl_arr[1]][1]>>
            /\ (pc = "loop" /\ i = 2) =>
                  /\ wpts = <<_wpts[fpl_arr[1]][1]>> \o inner
                  /\ last_wpt = At(awy._wpts, x - d)
            /\ ((pc = "loop" /\ i = 3) \/ pc = "returned") =>
                  wpts = <<_wpts[fpl_arr[1]][1]>> \o inner
                            \o <<_wpts[fpl_arr[3]][1]>>
            /\ pc = "returned" =>
                  names(outcome.value) =
                      [k \in 1..n |-> At(awy._wptnames, e + d * (k - 1))]

\* an airway flown in reverse over at least one intermediate waypoint
C9_Witness ==
    /\ AirwayPlan
    /\ pc = "returned"
    /\ Len(outcome.value) >= 3
    /\ firstAt(_awys[L9]._wptnames, fpl_arr[1])
          > firstAt(_awys[L9]._wptnames, fpl_arr[3])

(***************************************************************************)
(* Direct calls of NavDB.getClosest, on databases in which the name MID    *)
(* has any list of at most MaxCands candidates, due north or south of      *)
(* EGLL or on it, so that candidates can tie.                              *)
(***************************************************************************)
MaxCands == 3

CandLats == {30700, 30800, 31000}

ZZZZ == <<"Z", "Z", "Z", "Z">>

\* the example files with the navaids c (latitudes) named MID
CandidateFiles(c) ==
    [ExampleFiles EXCEPT
        !.load_navaids =
            <<Header(2301)>>
                \o [k \in 1..Len(c) |-> NavAidLine(MID, "VOR", c[k], -300)]]

InitResolve ==
    /\ \E c \in SeqsUpTo(CandLats, MaxCands) :
          HoldsDB(_load(NewNavDB, CandidateFiles(c)))
    /\ call \in [_name : {MID, BOGNA, ZZZZ},
                 _close_wpt : {None, _wpts[EGLL][1], _wpts[EGKK][1]}]
    /\ pc = "call"
    /\ outcome = NoOutcome
    /\ IdleAll

CallGetClosest ==
    /\ pc = "call"
    /\ outcome' = getClosest(call._name, call._close_wpt)
    /\ pc' = "called"
    /\ UNCHANGED <<heap, _wpts, _awys, airac, fpl_arr, i, wpts, last_wpt,
                   apts_found, call, files, ld_wpts>>

SpecResolve == InitResolve /\ [][CallGetClosest]_vars

\* C6: resolve raises NotFound for a name without candidates, returns the
\* sole candidate without computing a distance, raises Ambiguous for two or
\* more candidates and no reference, and otherwise returns the candidate
\* nearest the reference, the earliest in list order among the nearest.
C6_Resolve ==
    pc = "called" =>
        IF call._name \notin DOMAIN _wpts
        THEN /\ outcome.kind = "ElementNotFoundError"
             /\ outcome.args = <<call._name>>
        ELSE LET c == _wpts[call._name]
                 d(k) == distTo(heap[c[k]], heap[call._close_wpt])
             IN  IF Len(c) = 1
                 THEN /\ outcome.kind = "return"
                      /\ outcome.value = c[1]
                      /\ outcome.dists = 0
                 ELSE IF call._close_wpt = None
                 THEN /\ outcome.kind = "ElementAmbiguousError"
                      /\ outcome.args = <<call._name>>
                 ELSE /\ outcome.kind = "return"
                      /\ \E k \in 1..Len(c) :
                            /\ outcome.value = c[k]
                            /\ \A j \in 1..Len(c) : d(k) <= d(j)
                            /\ \A j \in 1..(k - 1) : d(k) < d(j)

\* two candidates tie for the least distance, a farther one precedes them
C6_Witness ==
    /\ pc = "called"
    /\ call._name = MID
    /\ call._close_wpt = _wpts[EGLL][1]
    /\ MID \in DOMAIN _wpts
    /\ [k \in 1..Len(_wpts[MID]) |-> heap[_wpts[MID][k]].lat]
          = <<30700, 31000, 30800>>
    /\ outcome.kind = "return"
    /\ outcome.value = _wpts[MID][2]

(***************************************************************************)
(* The validation loop of expandFPL on plans of one or two tokens, the     *)
(* tokens being all strings of at most MaxTokLen of the characters         *)
(* A 7 . / -                                                               *)
(***************************************************************************)
MaxTokLen == 3

TokenChars == {"A", "7", ".", "/", "-"}

ValidateTokens == SeqsUpTo(TokenChars, MaxTokLen) \ {<<>>}

InitValidate ==
    /\ HoldsDB(ExampleDB)
    /\ \/ \E t \in ValidateTokens : fpl_arr = <<t>>
       \/ \E t \in ValidateTokens, u \in ValidateTokens : fpl_arr = <<t, u>>
    /\ i = 0
    /\ wpts = <<>>
    /\ last_wpt = None
    /\ apts_found = 0
    /\ pc = "validate"
    /\ outcome = NoOutcome
    /\ IdleCall
    /\ IdleLoader

SpecValidate == InitValidate /\ [][Validate]_vars

Alnum == Upper \cup Lower \cup Digits

\* a character other than an alphanumeric one, '.' and '/'
hasOtherChar(t) == \E k \in 1..Len(t) : t[k] \notin Alnum \cup {".", "/"}

\* the tokens the specification has rejected
rejectedAsSpecified(t) ==
    hasOtherChar(t) \/ count(t, "/") > 1 \/ count(t, ".") > 1

\* the tokens the code rejects
rejected(t) ==
    \/ hasOtherChar(t)
    \/ count(t, "/") > 1
    \/ \A k \in 1..Len(t) : t[k] \notin Alnum

validated == pc # "validate"

accepted == pc = "loop"

\* C8 as stated: a plan is accepted only if every token is alphanumeric
\* plus at most one '.' and at most one '/', and a token with another
\* character, with more than one '/' or with more than one '.' makes
\* expand raise IllegalCharacter naming a token.
C8_AtMostOneDot ==
    validated =>
        /\ accepted => \A k \in 1..Len(fpl_arr) :
                          ~rejectedAsSpecified(fpl_arr[k])
        /\ (\E k \in 1..Len(fpl_arr) : rejectedAsSpecified(fpl_arr[k]))
              => /\ pc = "raised"
                 /\ outcome.kind = "IllegalCharacterError"
                 /\ \E k \in 1..Len(fpl_arr) : outcome.args = <<fpl_arr[k]>>

\* C8 amended: the number of '.' is not limited.  expand raises
\* IllegalCharacter, naming the first such token, exactly when a token has
\* a character other than alphanumerics, '.' and '/', has more than one
\* '/', or has no alphanumeric character at all.
C8_AnyNumberOfDots ==
    validated =>
        IF \E k \in 1..Len(fpl_arr) : rejected(fpl_arr[k])
        THEN /\ pc = "raised"
             /\ outcome.kind = "IllegalCharacterError"
             /\ \E k \in 1..Len(fpl_arr) :
                   /\ outcome.args = <<fpl_arr[k]>>
                   /\ rejected(fpl_arr[k])
                   /\ \A j \in 1..(k - 1) : ~rejected(fpl_arr[j])
        ELSE accepted

\* a plan with a token of two '.' is accepted, and one with a token of two
\* '/' after a good token is rejected
C8_Witness ==
    \/ /\ accepted
       /\ \E k \in 1..Len(fpl_arr) : count(fpl_arr[k], ".") > 1
    \/ /\ pc = "raised"
       /\ Len(fpl_arr) = 2
       /\ count(fpl_arr[2], "/") > 1
       /\ outcome.args = <<fpl_arr[2]>>

(***************************************************************************)
(* Direct calls of NavDB.getFPLelemtype on the loaded database, with every *)
(* string of at most MaxClassifyLen of the characters N A T 1 and a token  *)
(* for each rule of the chain.                                             *)
(***************************************************************************)
MaxClassifyLen == 4

ClassifyChars == {"N", "A", "T", "1"}

NamedTokens ==
    {DCT, EGLL, EGKK, ZZZZ, MID, DVR, BOGNA, HAZEL, L9, D123, SID1A,
     EGLLR09, ZZZZR09, Unnamed50N1W, Unnamed95N200E, IllegalAB,
     <<"E", "G", "L", "L", "R", "0", "9", "L">>,
     <<"E", "G", "L", "L", "R", "W", "Y">>,
     <<"H", "0", "1", "2", "3">>,
     <<"H", "0", "1", "2", "A">>,
     <<"N", "5", "0", "0", "0", "1", "W">>,
     <<"1", "2", "3", "4", "5", "A">>,
     <<"1", "2", "3", "4">>,
     <<"A", "B", "C", "D", "E", "F">>,
     <<"N", "A", "T", "Z">>,
     <<"N", "A", "T", ".">>,
     <<"1", "2", "3", "4", "N", "0", "1", "2", "3", "4", "E">>,
     <<"1", "2", "3", "4", "N", "/", "0", "1", "2", "3", "4", "E">>,
     <<"1", "2", "3", "4", ".", "5", "N", "0", "1", "2", "3", "4", ".", "5",
       "E">>,
     <<"N", "1", "2", "3", "4", ".", "5", "/", "E", "1", "6", "7", "5", "9",
       ".", "9">>}

ClassifyTokens ==
    (SeqsUpTo(ClassifyChars, MaxClassifyLen) \ {<<>>}) \cup NamedTokens

InitClassify ==
    /\ HoldsDB(ExampleDB)
    /\ call \in [_elem : ClassifyTokens]
    /\ pc = "call"
    /\ outcome = NoOutcome
    /\ IdleAll

CallGetFPLelemtype ==
    /\ pc = "call"
    /\ outcome' = Return(getFPLelemtype(call._elem))
    /\ pc' = "called"
    /\ UNCHANGED <<heap, _wpts, _awys, airac, fpl_arr, i, wpts, last_wpt,
                   apts_found, call, files, ld_wpts>>

SpecClassify == InitClassify /\ [][CallGetFPLelemtype]_vars

\* the eight roles, by the names the code gives them
Roles == {"dct", "ufx", "nat", "apt", "rwy", "fix", "awy", "prc"}

\* the 11 rules of the chain as the specification lists them
ruleMatches(r, t) ==
    LET len == Len(t)
        digits == Cardinality({k \in 1..len : t[k] \in Digits})
        alphas == Cardinality({k \in 1..len : t[k] \in Upper \cup Lower})
        dirs == Cardinality({k \in 1..len : t[k] \in {"N", "S", "E", "W"}})
    IN  CASE r = 1 -> t = <<"D", "C", "T">>
          [] r = 2 -> dirs = 2 /\ len \in {7, 11, 12, 15, 16} /\ digits >= 5
          [] r = 3 -> len = 5 /\ t[1] = "H" /\ digits = 4
          [] r = 4 -> /\ len = 4
                      /\ SubSeq(t, 1, 3) = <<"N", "A", "T">>
                      /\ t[4] \in Upper \cup Lower
          [] r = 5 -> len = 4 /\ digits = 0
          [] r = 6 -> /\ len \in {7, 8}
                      /\ t[5] = "R"
                      /\ t[6] \in Digits /\ t[7] \in Digits
          [] r = 7 -> alphas = 1 /\ digits >= 4
          [] r = 8 -> alphas = len /\ len < 6
          [] r = 9 -> t \in DOMAIN _awys
          [] r = 10 -> t \in DOMAIN _wpts
          [] r = 11 -> TRUE

roleOfRule ==
    <<"dct", "ufx", "ufx", "nat", "apt", "rwy", "fix", "fix", "awy", "fix",
      "prc">>

firstRule(t) ==
    CHOOSE r \in 1..11 :
        ruleMatches(r, t) /\ \A q \in 1..(r - 1) : ~ruleMatches(q, t)

\* C2: classify returns one of the eight roles, the role of the first of
\* the 11 rules the token matches.
C2_FirstMatchingRule ==
    pc = "called" =>
        /\ outcome.value \in Roles
        /\ outcome.value = roleOfRule[firstRule(call._elem)]

\* What the code does of C2: the same for every token but the 4-character
\* ones that start with "NAT" and end with a non-alphabetic character.
ClassifyButNat ==
    (pc = "called"
        /\ ~(Len(call._elem) = 4 /\ SubSeq(call._elem, 1, 3) = NAT
                /\ ~isalpha(<<call._elem[4]>>))) =>
        outcome.value = roleOfRule[firstRule(call._elem)]

(***************************************************************************)
(* NavDB.__init__: _load on an empty database, one action per file.  The   *)
(* five files hold at most MaxLines lines in all, each a header of cycle   *)
(* 2301 or 2302 or the data line of its file.                              *)
(***************************************************************************)
MaxLines == 3

Blocks == PointBlocks \o <<"load_airways">>

DataLine ==
    [load_navaids |-> NavAidLine(MID, "VOR", 30900, -200),
     load_fixes |-> PointLine(BOGNA, 30700, -150),
     load_runways |-> RunwayLine(EGLL, <<"0", "9">>, 30900, -310),
     load_airports |-> PointLine(EGLL, 30900, -300),
     load_airways |-> AirwayLine(L9, BOGNA, 30700, -150)]

LineKinds == {"h2301", "h2302", "data"}

lineOf(b, kind) ==
    CASE kind = "h2301" -> Header(2301)
      [] kind = "h2302" -> Header(2302)
      [] kind = "data" -> DataLine[Blocks[b]]

\* the lines of the five files, in the order they are read
Tapes ==
    {t \in SeqsUpTo((1..Len(Blocks)) \X LineKinds, MaxLines) :
        \A k \in 1..(Len(t) - 1) : t[k][1] <= t[k + 1][1]}

RECURSIVE linesOf(_, _)
linesOf(t, b) ==
    IF t = <<>> THEN <<>>
    ELSE IF Head(t)[1] = b
    THEN <<lineOf(b, Head(t)[2])>> \o linesOf(Tail(t), b)
    ELSE linesOf(Tail(t), b)

filesOf(t) ==
    [load_navaids |-> linesOf(t, 1), load_fixes |-> linesOf(t, 2),
     load_runways |-> linesOf(t, 3), load_airports |-> linesOf(t, 4),
     load_airways |-> linesOf(t, 5)]

InitLoad ==
    /\ HoldsDB(NewNavDB)
    /\ \E t \in Tapes : files = filesOf(t)
    /\ ld_wpts = EmptyDict
    /\ pc = "load_navaids"
    /\ outcome = NoOutcome
    /\ IdleExpand
    /\ IdleCall

\* the block of one of the four point files; an exception leaves pc at the
\* block that raised it
LoadPointFile(block, nextpc) ==
    /\ outcome.kind = "none"
    /\ LET st == loadPoints([heap |-> heap, wpts |-> ld_wpts,
                             airac |-> airac, err |-> NoOutcome],
                            files[block], block)
           ok == st.err.kind = "none"
       IN  /\ heap' = st.heap
           /\ ld_wpts' = st.wpts
           /\ airac' = st.airac
           /\ outcome' = st.err
           /\ pc' = IF ok THEN nextpc ELSE pc
           /\ _wpts' = IF ok /\ block = "load_airports" THEN st.wpts
                       ELSE _wpts
    /\ UNCHANGED <<_awys, fpl_arr, i, wpts, last_wpt, apts_found, call,
                   files>>

LoadNavAids ==
    /\ pc = "load_navaids"
    /\ LoadPointFile("load_navaids", "load_fixes")

LoadFixes ==
    /\ pc = "load_fixes"
    /\ LoadPointFile("load_fixes", "load_runways")

LoadRunways ==
    /\ pc = "load_runways"
    /\ LoadPointFile("load_runways", "load_airports")

LoadAirports ==
    /\ pc = "load_airports"
    /\ LoadPointFile("load_airports", "load_airways")

LoadAirways ==
    /\ pc = "load_airways" /\ outcome.kind = "none"
    /\ LET st == loadAirways([heap |-> heap, awys |-> EmptyDict,
                              cawy |-> Nothing, airac |-> airac,
                              err |-> NoOutcome], files.load_airways)
           ok == st.err.kind = "none"
       IN  /\ heap' = st.heap
           /\ airac' = st.airac
           /\ outcome' = st.err
           /\ pc' = IF ok THEN "loaded" ELSE pc
           /\ _awys' = IF ok THEN st.awys ELSE _awys
    /\ UNCHANGED <<_wpts, fpl_arr, i, wpts, last_wpt, apts_found, call,
                   files, ld_wpts>>

NextLoad ==
    \/ LoadNavAids
    \/ LoadFixes
    \/ LoadRunways
    \/ LoadAirports
    \/ LoadAirways

SpecLoad == InitLoad /\ [][NextLoad]_vars

\* the header lines of the five files in reading order, each with its block
RECURSIVE headersFrom(_)
headersFrom(b) ==
    IF b > Len(Blocks) THEN <<>>
    ELSE LET ls == files[Blocks[b]]
             hs == {k \in 1..Len(ls) : ls[k].kind = "header"}
             pick[k \in 0..Len(ls)] ==
                 IF k = 0 THEN <<>>
                 ELSE IF k \in hs
                 THEN Append(pick[k - 1],
                             [block |-> Blocks[b], cycle |-> ls[k].cycle])
                 ELSE pick[k - 1]
         IN  pick[Len(ls)] \o headersFrom(b + 1)

headers == headersFrom(1)

loadEnded == pc = "loaded" \/ outcome.kind # "none"

\* A load as the specification describes it, the error naming the file by
\* `fileNames`: the first header gives the cycle, and a later header of
\* another cycle number raises the initialization error naming the file
\* that header was read in.
LoadAsSpecified(fileNames) ==
    loadEnded =>
        LET hs == headers
            bad == {k \in 1..Len(hs) : hs[k].cycle # hs[1].cycle}
        IN  /\ airac = IF hs = <<>> THEN Nothing
                       ELSE Some([cycle |-> hs[1].cycle])
            /\ bad # {} =>
                  LET k == CHOOSE k \in bad : \A j \in bad : k <= j
                  IN  /\ pc # "loaded"
                      /\ outcome.kind = "WrongAIRACcycleError"
                      /\ outcome.args = <<fileNames[hs[k].block]>>

\* C4: the first cycle header becomes the database's cycle, and a later
\* header line of a different cycle raises the initialization error, which
\* identifies the file the mismatching line was read in.
C4_MismatchNamesFile == LoadAsSpecified(OpenedFile)

\* What the code does of C4: the same, but with the fixes file named for a
\* mismatch in the runways file.
MismatchNamesRaisedFile == LoadAsSpecified(RaisedFile)

(***************************************************************************)
(* NavDB.reload on the loaded database: the reset, then _load on five new  *)
(* files, one action per file as above.  One reload is followed; call      *)
(* holds <<"reload", n>>, n the number of objects made before it, so that  *)
(* the waypoints of the prior load are the references 1..n.                *)
(***************************************************************************)
\* the reset of reload without `self._awys = {}`
resetKeepsAirways(self) ==
    [heap |-> self.heap, _wpts |-> EmptyDict, _awys |-> self._awys,
     airac |-> Nothing]

\* `self.airac = None; self._awys = {}; self._wpts = {}`
resetDB(self) ==
    [heap |-> self.heap, _wpts |-> EmptyDict, _awys |-> EmptyDict,
     airac |-> Nothing]

InitReload ==
    /\ HoldsDB(ExampleDB)
    /\ files = ExampleFiles
    /\ ld_wpts = ExampleDB._wpts
    /\ pc = "loaded"
    /\ outcome = NoOutcome
    /\ IdleExpand
    /\ IdleCall

Reload ==
    /\ pc = "loaded" /\ call = <<>>
    /\ LET self == resetDB([heap |-> heap, _wpts |-> _wpts,
                            _awys |-> _awys, airac |-> airac])
       IN  /\ heap' = self.heap
           /\ _wpts' = self._wpts
           /\ _awys' = self._awys
           /\ airac' = self.airac
    /\ \E t \in Tapes : files' = filesOf(t)
    /\ ld_wpts' = EmptyDict
    /\ call' = <<"reload", Len(heap)>>
    /\ pc' = "load_navaids"
    /\ UNCHANGED <<fpl_arr, i, wpts, last_wpt, apts_found, outcome>>

NextReload ==
    \/ Reload
    \/ LoadNavAids
    \/ LoadFixes
    \/ LoadRunways
    \/ LoadAirports
    \/ LoadAirways

SpecReload == InitReload /\ [][NextReload]_vars

\* the reload raised the cycle-inconsistency error
reloadFailed ==
    Len(call) = 2 /\ outcome.kind = "WrongAIRACcycleError"

\* the names of the entities the data lines of the four point files make
RECURSIVE pointNamesFrom(_)
pointNamesFrom(b) ==
    IF b > Len(PointBlocks) THEN <<>>
    ELSE LET ls == files[PointBlocks[b]]
             pick[k \in 0..Len(ls)] ==
                 IF k = 0 THEN <<>>
                 ELSE IF ls[k].kind = "data"
                 THEN Append(pick[k - 1],
                             IF PointBlocks[b] = "load_runways"
                             THEN ls[k].apt \o <<"R">> \o ls[k].rwy
                             ELSE ls[k].name)
                 ELSE pick[k - 1]
         IN  pick[Len(ls)] \o pointNamesFrom(b + 1)

\* C11 as stated: after a reload that raised the cycle-inconsistency error
\* in any of the five files, the point map and the airway map are empty.
C11_BothMapsEmpty ==
    reloadFailed => DOMAIN _wpts = {} /\ DOMAIN _awys = {}

\* C11 amended: after such a reload the airway map is empty and the
\* database holds no waypoint of the prior load; the point map is empty
\* when the error was raised in one of the first four files, and holds the
\* points of the four files of the failed load when it was raised in the
\* airways file.
C11_ResetButForAirwaysFile ==
    reloadFailed =>
        /\ DOMAIN _awys = {}
        /\ \A a \in dbRefs : a > call[2]
        /\ IF pc = "load_airways"
           THEN LET ns == pointNamesFrom(1)
                IN  /\ DOMAIN _wpts = Range(ns)
                    /\ \A n \in DOMAIN _wpts :
                          /\ Len(_wpts[n])
                               = Cardinality({k \in 1..Len(ns) : ns[k] = n})
                          /\ \A k \in 1..Len(_wpts[n]) :
                                heap[_wpts[n][k]].name = n
           ELSE DOMAIN _wpts = {}

\* the reload failed in the airways file after points were read
C11_Witness ==
    /\ reloadFailed
    /\ pc = "load_airways"
    /\ DOMAIN _wpts # {}

====
